---------------------------- MODULE Spec2Model ----------------------------
(* A model of ralph's XenServer scan plugin, src/ralph/scan/plugins/ssh_xen.py. *)
(* Text is a sequence of one-character strings, so that the plugin's          *)
(* strip/replace/split/startswith calls are modelled by what they do to the   *)
(* characters of a line.                                                      *)
EXTENDS Integers, Sequences, FiniteSets, TLC

VARIABLES
  pc,         \* position of the call being executed
  ip_address, \* the address argument
  snmp_name,  \* kwargs.get('snmp_name'), None when the hint is absent
  SETTINGS,   \* the plugin's configuration: xen_user, xen_password
  io,         \* the calls made so far to the network collaborators, in order
  ssh,        \* the remote session: how often it was opened and closed
  pending,    \* the exception in flight inside _ssh_xen, NoExc when none
  frame,      \* the locals of _ssh_xen: uuid, vms, macs, disks, shares
  stdout,     \* the lines a parser has read so far, as the host emitted them
  locals,     \* the locals of the parser that is running
  result      \* what the call returned or raised, NotDone before

vars == <<pc, ip_address, snmp_name, SETTINGS, io, ssh, pending, frame, stdout, locals, result>>

-----------------------------------------------------------------------------
(* Python values *)

\* None: a one-element sequence whose element is no character, so that it can
\* be compared with any text and equals none.
None == <<"None">>

Truthy(x) == x # None /\ x # <<>>

Min(S) == CHOOSE i \in S : \A j \in S : i <= j

Max(S) == CHOOSE i \in S : \A j \in S : i >= j

RO == <<"(", " ", "R", "O", ")">>
RW == <<"(", " ", "R", "W", ")">>
MRO == <<"(", "M", "R", "O", ")">>
NL == <<"\n">>
COLON == <<":">>
SPACE == <<" ">>
UPPER == <<"A", "B", "C", "D", "E", "F", "G", "H", "I", "J", "K", "L", "M", "N", "O", "P", "Q", "R", "S", "T", "U", "V", "W", "X", "Y", "Z">>
LOWER == <<"a", "b", "c", "d", "e", "f", "g", "h", "i", "j", "k", "l", "m", "n", "o", "p", "q", "r", "s", "t", "u", "v", "w", "x", "y", "z">>
DIGITS == <<"0", "1", "2", "3", "4", "5", "6", "7", "8", "9">>

\* str.startswith
StartsWith(s, prefix) == Len(prefix) <= Len(s) /\ SubSeq(s, 1, Len(prefix)) = prefix

\* str.find, 1-based, 0 when sub does not occur
Find(s, sub) ==
  LET hits == {i \in 1..(Len(s) - Len(sub) + 1) : SubSeq(s, i, i + Len(sub) - 1) = sub}
  IN IF hits = {} THEN 0 ELSE Min(hits)

\* sub in s
Contains(sub, s) == Find(s, sub) # 0

\* str.replace(old, new): the occurrences left to right, not overlapping
RECURSIVE Replace(_, _, _)
Replace(s, old, new) ==
  LET i == Find(s, old)
  IN IF i = 0 THEN s
     ELSE SubSeq(s, 1, i - 1) \o new \o Replace(SubSeq(s, i + Len(old), Len(s)), old, new)

\* str.split(sep)
RECURSIVE Split(_, _)
Split(s, sep) ==
  LET i == Find(s, sep)
  IN IF i = 0 THEN <<s>>
     ELSE <<SubSeq(s, 1, i - 1)>> \o Split(SubSeq(s, i + Len(sep), Len(s)), sep)

\* str.split(sep, 1)
SplitOnce(s, sep) ==
  LET i == Find(s, sep)
  IN IF i = 0 THEN <<s>>
     ELSE <<SubSeq(s, 1, i - 1), SubSeq(s, i + Len(sep), Len(s))>>

IsSpace(c) == c \in {" ", "\t", "\n", "\r"}

\* str.strip()
Strip(s) ==
  LET ns == {i \in 1..Len(s) : ~IsSpace(s[i])}
  IN IF ns = {} THEN <<>> ELSE SubSeq(s, Min(ns), Max(ns))

\* str.splitlines(): the pieces between line breaks, without a last empty one
SplitLines(s) ==
  LET pieces == Split(s, NL)
  IN IF pieces[Len(pieces)] = <<>> THEN SubSeq(pieces, 1, Len(pieces) - 1) ELSE pieces

LowerChar(c) ==
  IF \E k \in 1..Len(UPPER) : UPPER[k] = c
  THEN LOWER[CHOOSE k \in 1..Len(UPPER) : UPPER[k] = c]
  ELSE c

\* str.lower()
Lower(s) == [i \in 1..Len(s) |-> LowerChar(s[i])]

IsDigits(s) == s # <<>> /\ \A i \in 1..Len(s) : \E d \in 1..Len(DIGITS) : DIGITS[d] = s[i]

DigitValue(c) == (CHOOSE d \in 1..Len(DIGITS) : DIGITS[d] = c) - 1

\* int(text) of a decimal numeral
RECURSIVE ParseInt(_)
ParseInt(s) ==
  IF s = <<>> THEN 0
  ELSE ParseInt(SubSeq(s, 1, Len(s) - 1)) * 10 + DigitValue(s[Len(s)])

KIB == 1024

\* int(int(value) / 1024 / 1024) under true division: the quotient cut to its
\* whole part (the byte counts of the model are not negative)
ToMiB(n) == (n \div KIB) \div KIB

-----------------------------------------------------------------------------
(* _sanitize_line *)

\* force_unicode(line, errors='ignore') leaves the characters of the model's
\* lines, all ASCII, as they are.
_sanitize_line(line) == Replace(Replace(Replace(Strip(line), RO, <<>>), RW, <<>>), MRO, <<>>)

-----------------------------------------------------------------------------
(* The text the host's xe commands print: 'key (flags): value' lines. A line *)
(* is kept as the record it was printed from, and the parsers read its text. *)

K_uuid == <<"u", "u", "i", "d">>
K_address == <<"a", "d", "d", "r", "e", "s", "s">>
K_name_label == <<"n", "a", "m", "e", "-", "l", "a", "b", "e", "l">>

Field(pad, key, flags, value) == [pad |-> pad, key |-> key, flags |-> flags, value |-> value]

BlankLine == [pad |-> <<>>, key |-> <<>>, flags |-> <<>>, value |-> <<>>]

\* The text of a printed line, its line break included (stdout.readlines()).
RenderLine(e) ==
  IF e = BlankLine THEN NL
  ELSE e.pad \o e.key \o SPACE \o e.flags \o COLON \o SPACE \o e.value \o NL

-----------------------------------------------------------------------------
(* _get_current_host_uuid *)

IP4 == <<"1", "0", ".", "0", ".", "0", ".", "5">>
IP4B == <<"1", "0", ".", "0", ".", "0", ".", "6">>
IP6 == <<":", ":", "1">>
UUID1 == <<"u", "-", "1">>
UUID2 == <<"u", "-", "2">>
HOSTNAME == <<"h", "1">>

\* Lines of 'xe host-list params=address,name-label,uuid'
HostLinePool ==
  { Field(<<>>, K_uuid, RO, UUID1),
    Field(<<>>, K_uuid, RO, UUID2),
    Field(<<" ", " ">>, K_name_label, RW, HOSTNAME),
    Field(<<" ", " ">>, K_address, RO, IP4),
    Field(<<" ", " ">>, K_address, RO, IP4B),
    Field(<<" ", " ">>, K_address, RO, IP6),
    BlankLine }

MaxHostLines == 5

HostLocals0 == [uuid |-> <<>>, match |-> FALSE]

\* One iteration of the for loop over the command's lines.
HostStep_AnyAddress(loc, line, ip) ==
  LET parts == Split(_sanitize_line(line), COLON)
  IN IF Len(parts) < 2 THEN loc
     ELSE LET param_name == Strip(parts[1])
              param_value == Strip(parts[2])
          IN IF param_name = K_uuid THEN [loc EXCEPT !.uuid = param_value]
             ELSE IF param_name = K_address
                  THEN [loc EXCEPT !.match = TRUE]
                  ELSE loc

HostStep(loc, line, ip) ==
  LET parts == Split(_sanitize_line(line), COLON)
  IN IF Len(parts) < 2 THEN loc
     ELSE LET param_name == Strip(parts[1])
              param_value == Strip(parts[2])
          IN IF param_name = K_uuid THEN [loc EXCEPT !.uuid = param_value]
             ELSE IF param_name = K_address /\ param_value = ip
                  THEN [loc EXCEPT !.match = TRUE]
                  ELSE loc

\* return uuid if match else None
HostReturnValue(loc) == IF loc.match THEN loc.uuid ELSE None

\* The whole function on a list of lines: the loop stops at the first match.
RECURSIVE HostLoop(_, _, _)
HostLoop(loc, lines, ip) ==
  IF lines = <<>> \/ loc.match THEN loc
  ELSE HostLoop(HostStep(loc, RenderLine(Head(lines)), ip), Tail(lines), ip)

_get_current_host_uuid(lines, ip) == HostReturnValue(HostLoop(HostLocals0, lines, ip))

-----------------------------------------------------------------------------
(* _get_macs *)

K_vm_name_label == <<"v", "m", "-", "n", "a", "m", "e", "-", "l", "a", "b", "e", "l">>
K_MAC == <<"M", "A", "C">>
TRANSFER_VM_FOR == <<"T", "r", "a", "n", "s", "f", "e", "r", " ", "V", "M", " ", "f", "o", "r">>
CONTROL_DOMAIN == <<"C", "o", "n", "t", "r", "o", "l", " ", "d", "o", "m", "a", "i", "n", " ", "o", "n", " ", "h", "o", "s", "t", ":">>
VM1 == <<"v", "m", "1">>
VM2 == <<"v", "m", "2">>
TRANSFER_VM == TRANSFER_VM_FOR \o <<" ", "x">>
CONTROL_VM == CONTROL_DOMAIN \o <<" ", "h", "1">>
MAC1 == <<"a", ":", "0", "1">>
MAC2 == <<"a", ":", "0", "2">>

\* Lines of 'xe vif-list params=vm-name-label,MAC'
MacLinePool ==
  { Field(<<>>, K_vm_name_label, RO, VM1),
    Field(<<>>, K_vm_name_label, RO, TRANSFER_VM),
    Field(<<>>, K_vm_name_label, RO, CONTROL_VM),
    Field(<<" ", " ">>, K_MAC, RO, MAC1),
    Field(<<" ", " ">>, K_MAC, RO, MAC2),
    BlankLine }

MaxMacLines == 5

\* A dict as a function on its keys; {} is the function on no key.
EmptyDict == <<>>

\* macs[label].add(mac) on a defaultdict(set)
AddToSet(d, key, x) ==
  IF key \in DOMAIN d THEN [d EXCEPT ![key] = @ \cup {x}] ELSE d @@ (key :> {x})

MacLocals0 == [label |-> <<>>, macs |-> EmptyDict]

\* One iteration of the for loop over the command's lines.
MacStep(loc, raw) ==
  LET line == _sanitize_line(raw)
      label == IF StartsWith(line, K_vm_name_label)
               THEN Strip(SplitOnce(line, COLON)[2])
               ELSE loc.label
  IN IF line = <<>> THEN loc
     ELSE IF StartsWith(label, TRANSFER_VM_FOR) THEN [loc EXCEPT !.label = label]
     ELSE IF StartsWith(line, K_MAC)
          THEN [label |-> label,
                macs |-> AddToSet(loc.macs, label, Strip(SplitOnce(line, COLON)[2]))]
          ELSE [loc EXCEPT !.label = label]

RECURSIVE MacLoop(_, _)
MacLoop(loc, lines) ==
  IF lines = <<>> THEN loc
  ELSE MacLoop(MacStep(loc, RenderLine(Head(lines))), Tail(lines))

_get_macs(lines) == MacLoop(MacLocals0, lines).macs

-----------------------------------------------------------------------------
(* _get_disks *)

K_sr_uuid == <<"s", "r", "-", "u", "u", "i", "d">>
K_type == <<"t", "y", "p", "e">>
K_device == <<"d", "e", "v", "i", "c", "e">>
K_virtual_size == <<"v", "i", "r", "t", "u", "a", "l", "-", "s", "i", "z", "e">>
K_disk_header == <<"D", "i", "s", "k", " ", "0", " ", "V", "B", "D">>
DISK == <<"D", "i", "s", "k">>
CD == <<"C", "D">>
SR1 == <<"s", "-", "1">>
SR2 == <<"s", "-", "2">>
XVDA == <<"x", "v", "d", "a">>
XVDB == <<"x", "v", "d", "b">>
XVDC == <<"x", "v", "d", "c">>
VDI1 == <<"d", "-", "1">>
VDI2 == <<"d", "-", "2">>
SIZE_3MIB_1 == <<"3", "1", "4", "5", "7", "2", "9">>
SIZE_1GIB == <<"1", "0", "7", "3", "7", "4", "1", "8", "2", "4">>

\* Lines of 'xe vm-disk-list vdi-params=sr-uuid,uuid,virtual-size
\* vbd-params=vm-name-label,type,device --multiple'
DiskLinePool ==
  { Field(<<>>, K_disk_header, <<>>, <<>>),
    Field(<<>>, K_vm_name_label, RO, VM1),
    Field(<<>>, K_vm_name_label, RO, VM2),
    Field(<<" ", " ">>, K_type, RW, DISK),
    Field(<<" ", " ">>, K_type, RW, CD),
    Field(<<" ", " ">>, K_device, RO, XVDA),
    Field(<<>>, K_uuid, RO, VDI1),
    Field(<<" ", " ">>, K_sr_uuid, RO, SR1),
    Field(<<" ", " ">>, K_virtual_size, RO, SIZE_3MIB_1) }

MaxDiskLines == 5

\* disks[vm].append(entry) on a defaultdict(list)
AppendToList(d, key, x) ==
  IF key \in DOMAIN d THEN [d EXCEPT ![key] = Append(@, x)] ELSE d @@ (key :> <<x>>)

DiskLocals0 ==
  [vm |-> None, sr_uuid |-> None, type_ |-> None, device |-> None, uuid |-> None,
   disks |-> EmptyDict]

DiskEntry(loc, value) == <<loc.uuid, loc.sr_uuid, ToMiB(ParseInt(value)), loc.device>>

\* DiskStep without the test of the device type.
DiskStep_AnyType(loc, line) ==
  IF Strip(line) = <<>> THEN loc
  ELSE LET kv == SplitOnce(line, COLON)
           key == Strip(kv[1])
           value == Strip(kv[2])
       IN IF StartsWith(key, K_vm_name_label \o SPACE) THEN [loc EXCEPT !.vm = value]
          ELSE IF StartsWith(key, K_sr_uuid \o SPACE) THEN [loc EXCEPT !.sr_uuid = value]
          ELSE IF StartsWith(key, K_type \o SPACE) THEN [loc EXCEPT !.type_ = value]
          ELSE IF StartsWith(key, K_device \o SPACE) THEN [loc EXCEPT !.device = value]
          ELSE IF StartsWith(key, K_uuid \o SPACE) THEN [loc EXCEPT !.uuid = value]
          ELSE IF StartsWith(key, K_virtual_size \o SPACE)
               THEN [loc EXCEPT !.disks = AppendToList(@, loc.vm, DiskEntry(loc, value))]
               ELSE loc

\* One iteration of the for loop over the command's lines.
DiskStep(loc, line) ==
  IF Strip(line) = <<>> THEN loc
  ELSE LET kv == SplitOnce(line, COLON)
           key == Strip(kv[1])
           value == Strip(kv[2])
       IN IF StartsWith(key, K_vm_name_label \o SPACE) THEN [loc EXCEPT !.vm = value]
          ELSE IF StartsWith(key, K_sr_uuid \o SPACE) THEN [loc EXCEPT !.sr_uuid = value]
          ELSE IF StartsWith(key, K_type \o SPACE) THEN [loc EXCEPT !.type_ = value]
          ELSE IF StartsWith(key, K_device \o SPACE) THEN [loc EXCEPT !.device = value]
          ELSE IF StartsWith(key, K_uuid \o SPACE) THEN [loc EXCEPT !.uuid = value]
          ELSE IF StartsWith(key, K_virtual_size \o SPACE) /\ loc.type_ = DISK
               THEN [loc EXCEPT !.disks = AppendToList(@, loc.vm, DiskEntry(loc, value))]
               ELSE loc

RECURSIVE DiskLoop(_, _)
DiskLoop(loc, lines) ==
  IF lines = <<>> THEN loc
  ELSE DiskLoop(DiskStep(loc, RenderLine(Head(lines))), Tail(lines))

_get_disks(lines) == DiskLoop(DiskLocals0, lines).disks

-----------------------------------------------------------------------------
(* _get_running_vms *)

K_power_state == <<"p", "o", "w", "e", "r", "-", "s", "t", "a", "t", "e">>
K_VCPUs_number == <<"V", "C", "P", "U", "s", "-", "n", "u", "m", "b", "e", "r">>
K_memory_actual == <<"m", "e", "m", "o", "r", "y", "-", "a", "c", "t", "u", "a", "l">>
RUNNING == <<"r", "u", "n", "n", "i", "n", "g">>
RUNNING_CAPITAL == <<"R", "u", "n", "n", "i", "n", "g">>
HALTED == <<"h", "a", "l", "t", "e", "d">>
VM_UUID1 == <<"v", "-", "1">>
VM_UUID2 == <<"v", "-", "2">>
VM_UUID3 == <<"v", "-", "3">>
VM_UUID4 == <<"v", "-", "4">>
TWO == <<"2">>

\* A block of 'xe vm-list params=uuid,name-label,power-state,VCPUs-number,
\* memory-actual': the lines it prints, without the ones named in omit.
VmBlock(label, uuid, power, omit) ==
  [label |-> label, uuid |-> uuid, power |-> power, cores |-> TWO,
   memory |-> SIZE_3MIB_1, omit |-> omit]

VmLabels == {<<VM1, VM_UUID1>>, <<VM2, VM_UUID2>>, <<TRANSFER_VM, VM_UUID3>>, <<CONTROL_VM, VM_UUID4>>}

VmBlockPool ==
  {VmBlock(l[1], l[2], p, {}) : l \in VmLabels, p \in {RUNNING, RUNNING_CAPITAL, HALTED}}
    \cup {VmBlock(VM1, VM_UUID1, RUNNING, {K_power_state})}

MaxVmBlocks == 2

BlockLines(b) ==
  << Field(<<>>, K_uuid, RO, b.uuid),
     Field(<<" ", " ">>, K_name_label, RW, b.label),
     Field(<<" ", " ">>, K_power_state, RO, b.power),
     Field(<<" ", " ">>, K_VCPUs_number, RW, b.cores),
     Field(<<" ", " ">>, K_memory_actual, RO, b.memory) >>

RECURSIVE RenderLines(_)
RenderLines(lines) ==
  IF lines = <<>> THEN <<>> ELSE RenderLine(Head(lines)) \o RenderLines(Tail(lines))

\* The text of a block, and the two blank lines xe prints after it.
RenderBlock(b) ==
  RenderLines(SelectSeq(BlockLines(b), LAMBDA e : e.key \notin b.omit)) \o NL \o NL

\* stdout.read(): the text of all the blocks
RECURSIVE RenderBlocks(_)
RenderBlocks(blocks) ==
  IF blocks = <<>> THEN <<>> ELSE RenderBlock(Head(blocks)) \o RenderBlocks(Tail(blocks))

\* ralph.util.parse.pairs(lines=...): a dict of the 'key: value' lines, key and
\* value stripped, a later line of a key replacing an earlier one.
RECURSIVE pairs(_)
pairs(lines) ==
  IF lines = <<>> THEN EmptyDict
  ELSE LET line == lines[Len(lines)]
           rest == pairs(SubSeq(lines, 1, Len(lines) - 1))
           kv == SplitOnce(line, COLON)
       IN IF Len(kv) < 2 THEN rest
          ELSE (Strip(kv[1]) :> Strip(kv[2])) @@ rest

\* The list comprehension over vm_data.splitlines()
VmInfo(vm_data) ==
  LET lines == SplitLines(vm_data)
  IN pairs([i \in 1..Len(lines) |->
              Strip(Replace(Replace(Replace(lines[i], RO, <<>>), RW, <<>>), MRO, <<>>))])

NoVms == [exc |-> "none", vms |-> {}]

Raise(acc, exc) == [acc EXCEPT !.exc = exc]

\* The keys the loop body reads from a block it keeps; int() of the numerals.
VmTuple(acc, info, label) ==
  IF K_VCPUs_number \notin DOMAIN info THEN Raise(acc, "KeyError")
  ELSE IF ~IsDigits(info[K_VCPUs_number]) THEN Raise(acc, "ValueError")
  ELSE IF K_memory_actual \notin DOMAIN info THEN Raise(acc, "KeyError")
  ELSE IF ~IsDigits(info[K_memory_actual]) THEN Raise(acc, "ValueError")
  ELSE IF K_uuid \notin DOMAIN info THEN Raise(acc, "KeyError")
  ELSE [acc EXCEPT !.vms = @ \cup
          {<<label, info[K_uuid], ParseInt(info[K_VCPUs_number]),
             ToMiB(ParseInt(info[K_memory_actual]))>>}]

\* VmStep that skips the transfer VMs only.
VmStep_TransferOnly(acc, vm_data) ==
  LET info == VmInfo(vm_data)
  IN IF DOMAIN info = {} THEN acc
     ELSE IF K_name_label \notin DOMAIN info THEN Raise(acc, "KeyError")
     ELSE IF StartsWith(info[K_name_label], TRANSFER_VM_FOR) THEN acc
     ELSE IF K_power_state \notin DOMAIN info THEN Raise(acc, "KeyError")
     ELSE IF info[K_power_state] \notin {RUNNING} THEN acc
     ELSE VmTuple(acc, info, info[K_name_label])

\* One iteration of the for loop over data.split('\n\n').
VmStep(acc, vm_data) ==
  LET info == VmInfo(vm_data)
  IN IF DOMAIN info = {} THEN acc
     ELSE IF K_name_label \notin DOMAIN info THEN Raise(acc, "KeyError")
     ELSE IF \/ StartsWith(info[K_name_label], TRANSFER_VM_FOR)
             \/ StartsWith(info[K_name_label], CONTROL_DOMAIN) THEN acc
     ELSE IF K_power_state \notin DOMAIN info THEN Raise(acc, "KeyError")
     ELSE IF info[K_power_state] \notin {RUNNING} THEN acc
     ELSE VmTuple(acc, info, info[K_name_label])

\* The loop: an exception ends it.
RECURSIVE VmLoop(_, _)
VmLoop(acc, pieces) ==
  IF pieces = <<>> \/ acc.exc # "none" THEN acc
  ELSE VmLoop(VmStep(acc, Head(pieces)), Tail(pieces))

\* The function on the command's whole output: the VMs, or the exception raised.
_get_running_vms(data) == VmLoop(NoVms, Split(data, NL \o NL))

-----------------------------------------------------------------------------
(* _ssh_xen after the session is closed: the device built from the four results *)

VHD == <<"V", "H", "D", "-">>
NONE_TEXT == <<"N", "o", "n", "e">>
WWN1 == <<"w", "w", "n", "1">>

\* '%s' % x
Format(x) == IF x = None THEN NONE_TEXT ELSE x

\* dict.get(key, default)
Get(d, key, default) == IF key \in DOMAIN d THEN d[key] ELSE default

\* 'VHD-%s' % sr_uuid
ShareKey(sr_uuid) == VHD \o Format(sr_uuid)

\* The if/else that files a disk already filed as a share under the disks too.
AddDisk_Both(vm_device, disk, shares) ==
  LET pair == Get(shares, ShareKey(disk[2]), <<None, None>>)
      storage == [size |-> disk[3], label |-> disk[4], family |-> "XEN Virtual Disk"]
  IN IF Truthy(pair[1])
     THEN AppendToList(
            AppendToList(vm_device, "disk_shares",
              [serial_number |-> pair[1], is_virtual |-> TRUE, size |-> pair[2], volume |-> disk[4]]),
            "disks", storage)
     ELSE AppendToList(vm_device, "disks", storage)

\* One iteration of the loop over vm_disks: disk is (uuid, sr_uuid, size, device).
AddDisk(vm_device, disk, shares) ==
  LET pair == Get(shares, ShareKey(disk[2]), <<None, None>>)
      wwn == pair[1]
      mount_size == pair[2]
  IN IF Truthy(wwn)
     THEN AppendToList(vm_device, "disk_shares",
            [serial_number |-> wwn, is_virtual |-> TRUE, size |-> mount_size, volume |-> disk[4]])
     ELSE AppendToList(vm_device, "disks",
            [size |-> disk[3], label |-> disk[4], family |-> "XEN Virtual Disk"])

RECURSIVE AddDisks(_, _, _)
AddDisks(vm_device, vm_disks, shares) ==
  IF vm_disks = <<>> THEN vm_device
  ELSE AddDisks(AddDisk(vm_device, Head(vm_disks), shares), Tail(vm_disks), shares)

Processor(i) ==
  [family |-> "XEN Virtual", name |-> "XEN Virtual CPU", label |-> <<"CPU", i>>,
   model_name |-> "XEN Virtual", cores |-> 1, index |-> i]

\* The body of the loop over vms: vm is (name, uuid, cores, memory). The MAC
\* list is in the iteration order of a set; the model keeps the set.
VmDevice(vm, macs, disks, shares) ==
  AddDisks(
    [model_name |-> "XEN Virtual Server",
     mac_addresses |-> Get(macs, vm[1], {}),
     serial_number |-> vm[2],
     hostname |-> vm[1],
     processors |-> [i \in 1..vm[3] |-> Processor(i - 1)],
     memory |-> <<[family |-> "Virtual", size |-> vm[4], label |-> "XEN Virtual"]>>],
    Get(disks, vm[1], <<>>), shares)

\* The orders in which a loop may go through a set.
OrdersOf(S) ==
  {order \in [1..Cardinality(S) -> S] : \A i, j \in DOMAIN order : order[i] = order[j] => i = j}

\* device_info, with the VMs taken in the given order
DeviceInfo(ip, order, macs, disks, shares) ==
  [subdevices |-> [i \in DOMAIN order |-> VmDevice(order[i], macs, disks, shares)],
   type |-> "unknown",
   system_ip_addresses |-> <<ip>>]

-----------------------------------------------------------------------------
(* Values of the variables a specification does not use *)

NotDone == [kind |-> "none"]

NoExc == [type |-> "none", message |-> ""]

NoSettings == [xen_user |-> None, xen_password |-> None]

NoSession == [opened |-> 0, closed |-> 0]

Unset == <<"Unset">>

NoFrame == [uuid |-> Unset, vms |-> {}, macs |-> EmptyDict, disks |-> EmptyDict, shares |-> EmptyDict]

NoLocals == [uuid |-> None]

Returned(v) == [kind |-> "returned", value |-> v]

-----------------------------------------------------------------------------
(* SpecHost: _get_current_host_uuid reading the host list line by line *)

HostInit ==
  /\ pc = "host_loop"
  /\ ip_address \in {IP4, IP6}
  /\ snmp_name = None
  /\ SETTINGS = NoSettings
  /\ io = <<>>
  /\ ssh = NoSession
  /\ pending = NoExc
  /\ frame = NoFrame
  /\ stdout = <<>>
  /\ locals = HostLocals0
  /\ result = NotDone

\* The next line of the command's output (_ssh_lines reads them all before the
\* loop starts): the loop body runs on it unless a match has ended the loop.
HostReadLine ==
  /\ pc = "host_loop"
  /\ Len(stdout) < MaxHostLines
  /\ \E e \in HostLinePool :
       /\ stdout' = Append(stdout, e)
       /\ locals' = HostLoop(locals, <<e>>, ip_address)
  /\ UNCHANGED <<pc, ip_address, snmp_name, SETTINGS, io, ssh, pending, frame, result>>

\* The end of the output: the return statement.
HostReturn ==
  /\ pc = "host_loop"
  /\ pc' = "host_done"
  /\ result' = Returned(HostReturnValue(locals))
  /\ UNCHANGED <<ip_address, snmp_name, SETTINGS, io, ssh, pending, frame, stdout, locals>>

HostNext == HostReadLine \/ HostReturn

SpecHost == HostInit /\ [][HostNext]_vars

-----------------------------------------------------------------------------
(* Claims about _get_current_host_uuid, under SpecHost *)

IsBlank(e) == e = BlankLine

\* The lines of the block line i belongs to: blocks are separated by blank lines.
BlockOf(i) ==
  {j \in 1..Len(stdout) :
     \A k \in (IF i < j THEN i ELSE j)..(IF i < j THEN j ELSE i) : ~IsBlank(stdout[k])}

KeyLines(i, key) == {j \in BlockOf(i) : stdout[j].key = key}

\* Every block has one uuid line and one address line.
HostBlocksComplete ==
  \A i \in 1..Len(stdout) :
    ~IsBlank(stdout[i]) =>
      Cardinality(KeyLines(i, K_uuid)) = 1 /\ Cardinality(KeyLines(i, K_address)) = 1

\* The UUIDs of the blocks whose address is the queried one.
MatchingUuids ==
  {stdout[j].value : j \in
     {j \in 1..Len(stdout) :
        /\ stdout[j].key = K_uuid
        /\ \E i \in BlockOf(j) : stdout[i].key = K_address /\ stdout[i].value = ip_address}}

HostUuidAnswerRight ==
  IF MatchingUuids # {}
  THEN result.value \in MatchingUuids /\ result.value # <<>>
  ELSE result.value = None

\* Every block prints its uuid line before its address line, as xe does.
UuidLinesFirst ==
  \A i \in 1..Len(stdout) :
    stdout[i].key = K_address => \A j \in KeyLines(i, K_uuid) : j < i

NoColonInValues ==
  /\ ~Contains(COLON, ip_address)
  /\ \A i \in 1..Len(stdout) : ~Contains(COLON, stdout[i].value)

\* C5 as stated: for every host list of complete blocks, whatever the order of
\* the lines of a block, the function returns the UUID of a block whose
\* address is the queried address, and None when there is no such block
\* (here for the lists without a colon in a value, which the claim includes).
C5_AnyOrder ==
  (pc = "host_done" /\ HostBlocksComplete /\ NoColonInValues) => HostUuidAnswerRight

\* C5 amended: the same, for host lists whose blocks print the uuid line before
\* the address line and whose values hold no colon.
C5_UuidFirst ==
  (pc = "host_done" /\ HostBlocksComplete /\ UuidLinesFirst /\ NoColonInValues)
    => HostUuidAnswerRight

\* Two complete blocks, the second one matching: its UUID is returned.
C5_Witness ==
  /\ pc = "host_done"
  /\ HostBlocksComplete /\ UuidLinesFirst /\ NoColonInValues
  /\ Len(stdout) = 5
  /\ stdout[1].value = UUID1
  /\ MatchingUuids = {UUID2}
  /\ result.value = UUID2

-----------------------------------------------------------------------------
(* SpecMacs: _get_macs reading the VIF list line by line *)

MacInit ==
  /\ pc = "macs_loop"
  /\ ip_address = IP4
  /\ snmp_name = None
  /\ SETTINGS = NoSettings
  /\ io = <<>>
  /\ ssh = NoSession
  /\ pending = NoExc
  /\ frame = NoFrame
  /\ stdout = <<>>
  /\ locals = MacLocals0
  /\ result = NotDone

MacReadLine ==
  /\ pc = "macs_loop"
  /\ Len(stdout) < MaxMacLines
  /\ \E e \in MacLinePool :
       /\ stdout' = Append(stdout, e)
       /\ locals' = MacStep(locals, RenderLine(e))
  /\ UNCHANGED <<pc, ip_address, snmp_name, SETTINGS, io, ssh, pending, frame, result>>

MacReturn ==
  /\ pc = "macs_loop"
  /\ pc' = "macs_done"
  /\ result' = Returned(locals.macs)
  /\ UNCHANGED <<ip_address, snmp_name, SETTINGS, io, ssh, pending, frame, stdout, locals>>

MacNext == MacReadLine \/ MacReturn

SpecMacs == MacInit /\ [][MacNext]_vars

-----------------------------------------------------------------------------
(* SpecDisks: _get_disks reading the disk list line by line *)

DiskInit ==
  /\ pc = "disks_loop"
  /\ ip_address = IP4
  /\ snmp_name = None
  /\ SETTINGS = NoSettings
  /\ io = <<>>
  /\ ssh = NoSession
  /\ pending = NoExc
  /\ frame = NoFrame
  /\ stdout = <<>>
  /\ locals = DiskLocals0
  /\ result = NotDone

DiskReadLine ==
  /\ pc = "disks_loop"
  /\ Len(stdout) < MaxDiskLines
  /\ \E e \in DiskLinePool :
       /\ stdout' = Append(stdout, e)
       /\ locals' = DiskStep(locals, RenderLine(e))
  /\ UNCHANGED <<pc, ip_address, snmp_name, SETTINGS, io, ssh, pending, frame, result>>

DiskReturn ==
  /\ pc = "disks_loop"
  /\ pc' = "disks_done"
  /\ result' = Returned(locals.disks)
  /\ UNCHANGED <<ip_address, snmp_name, SETTINGS, io, ssh, pending, frame, stdout, locals>>

DiskNext == DiskReadLine \/ DiskReturn

SpecDisks == DiskInit /\ [][DiskNext]_vars

-----------------------------------------------------------------------------
(* Claims about the two line parsers, stated on the lines as they were printed *)

\* The value of the last line before line i that has the key, if any.
LastValue(i, key, default) ==
  LET before == {j \in 1..(i - 1) : stdout[j].key = key}
  IN IF before = {} THEN default ELSE stdout[Max(before)].value

IsHelperLabel(label) ==
  StartsWith(label, TRANSFER_VM_FOR) \/ StartsWith(label, CONTROL_DOMAIN)

\* The MAC lines that stand under a label that is no helper VM's.
KeptMacLines ==
  {i \in 1..Len(stdout) :
     stdout[i].key = K_MAC /\ ~IsHelperLabel(LastValue(i, K_vm_name_label, <<>>))}

\* C9 as stated: the mapping _get_macs returns has no key of a helper VM of
\* either kind, drops the MAC lines under a helper VM's label, and holds every
\* other MAC line under the label seen last.
C9_SkipsBothHelpers ==
  pc = "macs_done" =>
    /\ DOMAIN result.value = {LastValue(i, K_vm_name_label, <<>>) : i \in KeptMacLines}
    /\ \A k \in DOMAIN result.value :
         result.value[k] =
           {stdout[i].value : i \in {j \in KeptMacLines : LastValue(j, K_vm_name_label, <<>>) = k}}

\* The virtual-size lines read while the device type seen last is Disk.
EmittingLines ==
  {i \in 1..Len(stdout) :
     stdout[i].key = K_virtual_size /\ LastValue(i, K_type, None) = DISK}

VmOfLine(i) == LastValue(i, K_vm_name_label, None)

LinesOfVm(vm) == {i \in EmittingLines : VmOfLine(i) = vm}

\* size is the byte count divided by 1048576, rounded down
IsFloorMiB(size, text) ==
  LET bytes == ParseInt(text)
  IN size * 1048576 <= bytes /\ bytes < (size + 1) * 1048576

\* The entry at position n of a VM's list is the one of the VM's n-th emitting line.
EntryIsOfLine(entry, i) ==
  /\ entry[1] = LastValue(i, K_uuid, None)
  /\ entry[2] = LastValue(i, K_sr_uuid, None)
  /\ IsFloorMiB(entry[3], stdout[i].value)
  /\ entry[4] = LastValue(i, K_device, None)

\* C10: after any number of lines, the disks hold one entry per virtual-size
\* line read while the device type seen last was Disk and no other, each under
\* the VM name seen last and with the disk UUID, SR UUID and device seen last
\* at that line and the size in MiB rounded down; every context field is the
\* value of the last line of its own key.
C10_DisksFollowLines ==
  LET n == Len(stdout) + 1
  IN /\ locals.vm = LastValue(n, K_vm_name_label, None)
     /\ locals.sr_uuid = LastValue(n, K_sr_uuid, None)
     /\ locals.type_ = LastValue(n, K_type, None)
     /\ locals.device = LastValue(n, K_device, None)
     /\ locals.uuid = LastValue(n, K_uuid, None)
     /\ DOMAIN locals.disks = {VmOfLine(i) : i \in EmittingLines}
     /\ \A vm \in DOMAIN locals.disks :
          /\ Len(locals.disks[vm]) = Cardinality(LinesOfVm(vm))
          /\ \A i \in LinesOfVm(vm) :
               EntryIsOfLine(locals.disks[vm][Cardinality({j \in LinesOfVm(vm) : j <= i})], i)
     /\ (pc = "disks_done" => result.value = locals.disks)

\* A virtual-size line read under type CD is skipped, a later one under type
\* Disk is emitted under the VM named before both.
C10_Witness ==
  /\ pc = "disks_done"
  /\ Len(stdout) = 5
  /\ stdout[2] = Field(<<" ", " ">>, K_type, RW, CD)
  /\ stdout[3].key = K_virtual_size
  /\ DOMAIN result.value = {VM2}
  /\ result.value[VM2] = << <<None, None, 3, None>> >>

-----------------------------------------------------------------------------
(* SpecVms: _get_running_vms on the VM list the host prints *)

VmInit ==
  /\ pc = "vms_read"
  /\ ip_address = IP4
  /\ snmp_name = None
  /\ SETTINGS = NoSettings
  /\ io = <<>>
  /\ ssh = NoSession
  /\ pending = NoExc
  /\ frame = NoFrame
  /\ stdout = <<>>
  /\ locals = NoLocals
  /\ result = NotDone

\* The host prints one more block.
VmPrintBlock ==
  /\ pc = "vms_read"
  /\ Len(stdout) < MaxVmBlocks
  /\ \E b \in VmBlockPool : stdout' = Append(stdout, b)
  /\ UNCHANGED <<pc, ip_address, snmp_name, SETTINGS, io, ssh, pending, frame, locals, result>>

\* stdout.read() at the end of the output, the loop over the blocks, the return.
VmReturn ==
  /\ pc = "vms_read"
  /\ pc' = "vms_done"
  /\ result' = Returned(_get_running_vms(RenderBlocks(stdout)))
  /\ UNCHANGED <<ip_address, snmp_name, SETTINGS, io, ssh, pending, frame, stdout, locals>>

VmNext == VmPrintBlock \/ VmReturn

SpecVms == VmInit /\ [][VmNext]_vars

\* The blocks that are running VMs and no helper VMs.
SurvivingBlocks ==
  {i \in 1..Len(stdout) : stdout[i].power = RUNNING /\ ~IsHelperLabel(stdout[i].label)}

BlocksWellFormed == \A i \in 1..Len(stdout) : stdout[i].omit = {}

\* C7: of a VM list of well-formed blocks, the VMs returned are those of the
\* blocks whose power state is "running" and whose name starts with neither
\* helper prefix: every such block gives a VM of its name and UUID, and no
\* returned VM has a name and UUID of another block or of none.
C7_RunningNonHelpers ==
  (pc = "vms_done" /\ BlocksWellFormed) =>
    /\ result.value.exc = "none"
    /\ {<<vm[1], vm[2]>> : vm \in result.value.vms}
         = {<<stdout[i].label, stdout[i].uuid>> : i \in SurvivingBlocks}

\* A running control domain is left out and a running VM is returned.
C7_Witness ==
  /\ pc = "vms_done"
  /\ BlocksWellFormed
  /\ Len(stdout) = 2
  /\ stdout[1] = VmBlock(CONTROL_VM, VM_UUID4, RUNNING, {})
  /\ stdout[2] = VmBlock(VM2, VM_UUID2, RUNNING, {})
  /\ result.value.vms = {<<VM2, VM_UUID2, 2, 3>>}

-----------------------------------------------------------------------------
(* SpecAssemble: the device _ssh_xen builds from the results of the commands *)

MaxVmDisks == 2

\* (uuid, sr_uuid, size, device) as _get_disks emits them
DiskEntryPool ==
  { <<VDI1, SR1, 3, XVDA>>, <<VDI2, SR2, 1024, XVDB>>, <<VDI1, None, 3, XVDC>> }

DiskLists == UNION {[1..n -> DiskEntryPool] : n \in 0..MaxVmDisks}

VmTuplePool == { <<VM1, VM_UUID1, 2, 3>>, <<VM2, VM_UUID2, 1, 3>> }

\* What get_disk_shares may hold for a storage repository: (serial, mount size)
SharePairPool == { <<WWN1, 100>>, <<<<>>, 100>> }

\* The dicts with the given keys that are present, each with a value of its set.
DictsOver(keys, values) == UNION {[ks -> values] : ks \in SUBSET keys}

AssembleInit ==
  /\ pc = "assemble"
  /\ ip_address = IP4
  /\ snmp_name = None
  /\ SETTINGS = NoSettings
  /\ io = <<>>
  /\ ssh = NoSession
  /\ pending = NoExc
  /\ \E vms \in SUBSET VmTuplePool, l1 \in DiskLists, l2 \in {<<>>, << <<VDI2, SR2, 1024, XVDB>> >>},
        shares \in DictsOver({ShareKey(SR1), ShareKey(SR2)}, SharePairPool) :
       frame = [uuid |-> UUID1, vms |-> vms,
                macs |-> (VM1 :> {MAC1}),
                disks |-> (IF l1 = <<>> THEN EmptyDict ELSE (VM1 :> l1))
                           @@ (IF l2 = <<>> THEN EmptyDict ELSE (VM2 :> l2)),
                shares |-> shares]
  /\ stdout = <<>>
  /\ locals = NoLocals
  /\ result = NotDone

\* Lines 178 to 232, in one of the orders the loop over the set vms may take.
Assemble ==
  /\ pc = "assemble"
  /\ pc' = "assembled"
  /\ \E order \in OrdersOf(frame.vms) :
       result' = Returned(DeviceInfo(ip_address, order, frame.macs, frame.disks, frame.shares))
  /\ UNCHANGED <<ip_address, snmp_name, SETTINGS, io, ssh, pending, frame, stdout, locals>>

AssembleNext == Assemble

SpecAssemble == AssembleInit /\ [][AssembleNext]_vars

\* The device's list under a key that is only there when it is not empty.
ListOf(vm_device, key) == Get(vm_device, key, <<>>)

VolumesOf(list) == [i \in DOMAIN list |-> list[i].volume]

LabelsOf(list) == [i \in DOMAIN list |-> list[i].label]

DevicesOf(vm_disks) == [i \in DOMAIN vm_disks |-> vm_disks[i][4]]

KeyPresent(disk) == ShareKey(disk[2]) \in DOMAIN frame.shares

SerialPresent(disk) ==
  KeyPresent(disk) /\ Truthy(frame.shares[ShareKey(disk[2])][1])

\* The shares of the device are the disks of the set shared and the plain disks
\* the others, each group in the order of the disk list.
SplitBy(vm_device, shared) ==
  LET vm_disks == Get(frame.disks, vm_device.hostname, <<>>)
  IN /\ VolumesOf(ListOf(vm_device, "disk_shares"))
          = DevicesOf(SelectSeq(vm_disks, LAMBDA d : d \in shared))
     /\ LabelsOf(ListOf(vm_device, "disks"))
          = DevicesOf(SelectSeq(vm_disks, LAMBDA d : d \notin shared))

-----------------------------------------------------------------------------
(* Spec: one call of scan_address, step by step *)

NXOS == <<"n", "x", "-", "o", "s">>
XEN == <<"x", "e", "n">>
ROOT == <<"r", "o", "o", "t">>
SECRET == <<"p", "w">>

\* The snmp_name hints: absent, '', 'xen', 'Xen', 'xenserver', 'linux',
\* 'nx-os xen', 'NX-OS xen', 'Nx-Os'
SnmpNamePool ==
  { None, <<>>, XEN, <<"X", "e", "n">>, XEN \o <<"s", "e", "r", "v", "e", "r">>,
    <<"l", "i", "n", "u", "x">>, NXOS \o SPACE \o XEN,
    <<"N", "X", "-", "O", "S">> \o SPACE \o XEN, <<"N", "x", "-", "O", "s">> }

CredentialPool(secret) == {None, <<>>, secret}

\* What the commands print in this specification
HostOutputs ==
  { << Field(<<>>, K_uuid, RO, UUID1), Field(<<" ", " ">>, K_name_label, RW, HOSTNAME),
       Field(<<" ", " ">>, K_address, RO, IP4) >>,
    << Field(<<>>, K_uuid, RO, UUID1), Field(<<" ", " ">>, K_address, RO, IP4B) >>,
    << Field(<<" ", " ">>, K_address, RO, IP4), Field(<<>>, K_uuid, RO, UUID1) >> }

VmOutputs ==
  { <<>>,
    << VmBlock(VM1, VM_UUID1, RUNNING, {}) >>,
    << VmBlock(CONTROL_VM, VM_UUID4, RUNNING, {}), VmBlock(VM2, VM_UUID2, RUNNING, {}) >>,
    << VmBlock(VM1, VM_UUID1, RUNNING, {K_power_state}) >> }

VifOutputs ==
  { <<>>, << Field(<<>>, K_vm_name_label, RO, VM1), Field(<<" ", " ">>, K_MAC, RO, MAC1) >> }

DiskOutputs ==
  { <<>>,
    << Field(<<>>, K_vm_name_label, RO, VM1), Field(<<" ", " ">>, K_type, RW, DISK),
       Field(<<" ", " ">>, K_sr_uuid, RO, SR1), Field(<<" ", " ">>, K_device, RO, XVDA),
       Field(<<" ", " ">>, K_virtual_size, RO, SIZE_1GIB) >> }

ShareOutputs == { EmptyDict, ShareKey(SR1) :> <<WWN1, 100>> }

\* The exceptions a failing transport call may raise: the scan's own
\* ConnectionError, or one of another library.
TransportErrors == {"ConnectionError", "SSHException"}

Exc(type, message) == [type |-> type, message |-> message]

Raised(exc) == [kind |-> "raised", type |-> exc.type, message |-> exc.message]

NotConfiguredMessage == "Not configured. Set XEN_USER and XEN_PASSWORD in your configuration file."

PortClosedMessage == "Port 22 closed on a XEN server."

NoUuidMessage == "Could not find this host UUID."

\* ralph.scan.plugins.get_base_result_template: the base result, holding the
\* caller's message list itself
get_base_result_template(plugin_name, messages) ==
  [status |-> "unknown", plugin |-> plugin_name, messages |-> messages]

\* result['status'] = 'error'; messages.append(message)
ErrorResult(message) ==
  [get_base_result_template("ssh_xen", <<>>) EXCEPT !.status = "error", !.messages = Append(@, message)]

\* result.update({'status': 'success', 'device': device_info})
SuccessResult(device_info) ==
  ("device" :> device_info) @@
    [get_base_result_template("ssh_xen", <<>>) EXCEPT !.status = "success"]

\* NoMatchReason that looks for 'nx-os' in the name as it is written.
NoMatchReason_CaseSensitive(name) ==
  LET hint == IF Truthy(name) THEN name ELSE <<>>
  IN IF Contains(NXOS, hint) THEN "Incompatible Nexus found."
     ELSE IF ~Contains(XEN, hint) THEN "XEN not found."
     ELSE "match"

\* The two tests at the head of scan_address: the message of the NoMatchError
\* raised, or "match".
NoMatchReason(name) ==
  LET hint == IF Truthy(name) THEN name ELSE <<>>
  IN IF Contains(NXOS, Lower(hint)) THEN "Incompatible Nexus found."
     ELSE IF ~Contains(XEN, hint) THEN "XEN not found."
     ELSE "match"

NotConfigured_UserOnly(settings) == ~Truthy(settings.xen_user)

\* if not user or not password
NotConfigured(settings) == ~Truthy(settings.xen_user) \/ ~Truthy(settings.xen_password)

PortClosedRaises_Never(open) == FALSE

\* if not check_tcp_port(ip_address, 22): raise
PortClosedRaises(open) == ~open

UuidMissing_NoneOnly(uuid) == uuid = None

\* if not uuid: raise
UuidMissing(uuid) == ~Truthy(uuid)

RaiseInTry_Unprotected == "except"

\* Where an exception raised inside the try block of _ssh_xen goes first.
RaiseInTry == "finally"

\* except (Error, ConnectionError) in scan_address, and what escapes it
Handle(exc) ==
  IF exc.type \in {"Error", "ConnectionError"}
  THEN Returned(ErrorResult(exc.message))
  ELSE Raised(exc)

Call(name, detail) == [call |-> name, detail |-> detail]

Init ==
  /\ pc = "scan_address"
  /\ ip_address = IP4
  /\ snmp_name \in SnmpNamePool
  /\ SETTINGS \in [xen_user : CredentialPool(ROOT), xen_password : CredentialPool(SECRET)]
  /\ io = <<>>
  /\ ssh = NoSession
  /\ pending = NoExc
  /\ frame = NoFrame
  /\ stdout = <<>>
  /\ locals = NoLocals
  /\ result = NotDone

\* Lines 236 to 240: the hint decides whether the plugin applies.
ScanGate ==
  /\ pc = "scan_address"
  /\ IF NoMatchReason(snmp_name) = "match"
     THEN pc' = "settings" /\ UNCHANGED result
     ELSE pc' = "done" /\ result' = Raised(Exc("NoMatchError", NoMatchReason(snmp_name)))
  /\ UNCHANGED <<ip_address, snmp_name, SETTINGS, io, ssh, pending, frame, stdout, locals>>

\* Lines 241 to 250 and 262: without credentials the error result is returned.
ScanSettings ==
  /\ pc = "settings"
  /\ IF NotConfigured(SETTINGS)
     THEN pc' = "done" /\ result' = Returned(ErrorResult(NotConfiguredMessage))
     ELSE pc' = "check_tcp_port" /\ UNCHANGED result
  /\ UNCHANGED <<ip_address, snmp_name, SETTINGS, io, ssh, pending, frame, stdout, locals>>

\* _connect_ssh, lines 30 and 31: the port is probed, a closed one raises.
CheckTcpPort ==
  /\ pc = "check_tcp_port"
  /\ \E open \in BOOLEAN :
       /\ io' = Append(io, Call("check_tcp_port", open))
       /\ IF PortClosedRaises(open)
          THEN pc' = "except" /\ pending' = Exc("ConnectionError", PortClosedMessage)
          ELSE pc' = "connect_ssh" /\ UNCHANGED pending
  /\ UNCHANGED <<ip_address, snmp_name, SETTINGS, ssh, frame, stdout, locals, result>>

\* _connect_ssh, line 32: connect_ssh returns a session or raises.
ConnectSsh ==
  /\ pc = "connect_ssh"
  /\ \/ /\ io' = Append(io, Call("connect_ssh", "session"))
        /\ ssh' = [ssh EXCEPT !.opened = @ + 1]
        /\ pc' = "host_list"
        /\ UNCHANGED pending
     \/ \E type \in TransportErrors \cup {"AuthError"} :
          /\ io' = Append(io, Call("connect_ssh", type))
          /\ pending' = Exc(type, "connect_ssh failed")
          /\ pc' = "except"
          /\ UNCHANGED ssh
  /\ UNCHANGED <<ip_address, snmp_name, SETTINGS, frame, stdout, locals, result>>

\* A transport call inside the try block fails.
TransportFails(command) ==
  \E type \in TransportErrors :
    /\ io' = Append(io, Call(command, type))
    /\ pending' = Exc(type, "transport failed")
    /\ pc' = RaiseInTry
    /\ UNCHANGED frame

\* Lines 169 to 171: the host list is read and the host's UUID looked up.
RunHostList ==
  /\ pc = "host_list"
  /\ \/ TransportFails("host-list")
     \/ \E lines \in HostOutputs :
          LET uuid == _get_current_host_uuid(lines, ip_address)
          IN /\ io' = Append(io, Call("host-list", "output"))
             /\ frame' = [frame EXCEPT !.uuid = uuid]
             /\ IF UuidMissing(uuid)
                THEN pc' = RaiseInTry /\ pending' = Exc("Error", NoUuidMessage)
                ELSE pc' = "vm_list" /\ UNCHANGED pending
  /\ UNCHANGED <<ip_address, snmp_name, SETTINGS, ssh, stdout, locals, result>>

\* Line 172: the VM list; a block without an expected key raises.
RunVmList ==
  /\ pc = "vm_list"
  /\ \/ TransportFails("vm-list")
     \/ \E blocks \in VmOutputs :
          LET got == _get_running_vms(RenderBlocks(blocks))
          IN /\ io' = Append(io, Call("vm-list", "output"))
             /\ IF got.exc # "none"
                THEN /\ pc' = RaiseInTry
                     /\ pending' = Exc(got.exc, "parsing failed")
                     /\ UNCHANGED frame
                ELSE /\ pc' = "vif_list"
                     /\ frame' = [frame EXCEPT !.vms = got.vms]
                     /\ UNCHANGED pending
  /\ UNCHANGED <<ip_address, snmp_name, SETTINGS, ssh, stdout, locals, result>>

\* Line 173
RunVifList ==
  /\ pc = "vif_list"
  /\ \/ TransportFails("vif-list")
     \/ \E lines \in VifOutputs :
          /\ io' = Append(io, Call("vif-list", "output"))
          /\ frame' = [frame EXCEPT !.macs = _get_macs(lines)]
          /\ pc' = "vm_disk_list"
          /\ UNCHANGED pending
  /\ UNCHANGED <<ip_address, snmp_name, SETTINGS, ssh, stdout, locals, result>>

\* Line 174
RunVmDiskList ==
  /\ pc = "vm_disk_list"
  /\ \/ TransportFails("vm-disk-list")
     \/ \E lines \in DiskOutputs :
          /\ io' = Append(io, Call("vm-disk-list", "output"))
          /\ frame' = [frame EXCEPT !.disks = _get_disks(lines)]
          /\ pc' = "get_disk_shares"
          /\ UNCHANGED pending
  /\ UNCHANGED <<ip_address, snmp_name, SETTINGS, ssh, stdout, locals, result>>

\* Line 175: the share lookup, on the same session
GetDiskShares ==
  /\ pc = "get_disk_shares"
  /\ \/ TransportFails("get_disk_shares")
     \/ \E shares \in ShareOutputs :
          /\ io' = Append(io, Call("get_disk_shares", "output"))
          /\ frame' = [frame EXCEPT !.shares = shares]
          /\ pc' = "finally"
          /\ UNCHANGED pending
  /\ UNCHANGED <<ip_address, snmp_name, SETTINGS, ssh, stdout, locals, result>>

\* Lines 176 and 177: the finally clause closes the session; an exception in
\* flight goes on to the caller, and without one the device is built.
CloseSession ==
  /\ pc = "finally"
  /\ ssh' = [ssh EXCEPT !.closed = @ + 1]
  /\ io' = Append(io, Call("close", "closed"))
  /\ pc' = IF pending = NoExc THEN "assemble" ELSE "except"
  /\ UNCHANGED <<ip_address, snmp_name, SETTINGS, pending, frame, stdout, locals, result>>

\* Lines 254 to 256 and 262: the exception reaches scan_address.
ScanExcept ==
  /\ pc = "except"
  /\ pc' = "done"
  /\ result' = Handle(pending)
  /\ UNCHANGED <<ip_address, snmp_name, SETTINGS, io, ssh, pending, frame, stdout, locals>>

\* Lines 257 to 262: _ssh_xen returned the device.
ScanReturn ==
  /\ pc = "assembled"
  /\ pc' = "done"
  /\ result' = Returned(SuccessResult(result.value))
  /\ UNCHANGED <<ip_address, snmp_name, SETTINGS, io, ssh, pending, frame, stdout, locals>>

Next ==
  \/ ScanGate
  \/ ScanSettings
  \/ CheckTcpPort
  \/ ConnectSsh
  \/ RunHostList
  \/ RunVmList
  \/ RunVifList
  \/ RunVmDiskList
  \/ GetDiskShares
  \/ CloseSession
  \/ Assemble
  \/ ScanExcept
  \/ ScanReturn

Spec == Init /\ [][Next]_vars

-----------------------------------------------------------------------------
(* Claims about scan_address, under Spec *)

Calls(name) == {i \in 1..Len(io) : io[i].call = name}

\* The word occurs in the text at position i, each letter in either case.
OccursAnyCaseAt(text, word, i) ==
  /\ i + Len(word) - 1 <= Len(text)
  /\ \A k \in 1..Len(word) :
       \/ text[i + k - 1] = word[k]
       \/ \E a \in 1..Len(LOWER) : word[k] = LOWER[a] /\ text[i + k - 1] = UPPER[a]

\* The word occurs in the text at position i as it is written.
OccursAt(text, word, i) ==
  /\ i + Len(word) - 1 <= Len(text)
  /\ \A k \in 1..Len(word) : text[i + k - 1] = word[k]

HintAbsent == snmp_name = None \/ snmp_name = <<>>

HintLacksXen == ~HintAbsent /\ ~\E i \in 1..Len(snmp_name) : OccursAt(snmp_name, XEN, i)

HintNamesNexus == ~HintAbsent /\ \E i \in 1..Len(snmp_name) : OccursAnyCaseAt(snmp_name, NXOS, i)

HintRejected == HintAbsent \/ HintLacksXen \/ HintNamesNexus

CredentialMissing ==
  \/ SETTINGS.xen_user \in {None, <<>>}
  \/ SETTINGS.xen_password \in {None, <<>>}

ReturnedError(message) ==
  /\ result.kind = "returned"
  /\ result.value.status = "error"
  /\ \E i \in 1..Len(result.value.messages) : result.value.messages[i] = message
  /\ "device" \notin DOMAIN result.value

\* C1: a call opens at most one session, and a session that was opened is
\* closed exactly once by the time the call has left _ssh_xen for scan_address
\* to return or raise, whichever way it left.
C1_SessionClosedOnce ==
  /\ ssh.opened <= 1
  /\ ssh.closed <= ssh.opened
  /\ Cardinality(Calls("close")) = ssh.closed
  /\ pc \in {"assemble", "assembled", "except", "done"} => ssh.closed = ssh.opened

\* The call raised the KeyError of a VM block without its power state, after
\* closing the session it had opened.
C1_Witness ==
  /\ pc = "done"
  /\ result.kind = "raised"
  /\ result.type = "KeyError"
  /\ ssh = [opened |-> 1, closed |-> 1]

\* C2: with a hint that is absent or empty, has no "xen" or has "nx-os" in any
\* letter case, the call makes no network call at all and ends raising
\* NoMatchError, whatever the credentials are.
C2_AbstainsWithoutIo ==
  HintRejected =>
    /\ io = <<>>
    /\ ssh = NoSession
    /\ pc \in {"scan_address", "done"}
    /\ pc = "done" => result.kind = "raised" /\ result.type = "NoMatchError"

\* The hint 'NX-OS xen' with both credentials set: NoMatchError, no call.
C2_Witness ==
  /\ pc = "done"
  /\ snmp_name = <<"N", "X", "-", "O", "S">> \o SPACE \o XEN
  /\ SETTINGS = [xen_user |-> ROOT, xen_password |-> SECRET]
  /\ result.kind = "raised"
  /\ result.type = "NoMatchError"
  /\ io = <<>>

\* C3: with a hint that passes and a user or password that is missing or
\* empty, the call makes no network call and returns an error result with the
\* not-configured message and no device.
C3_NotConfigured ==
  (~HintRejected /\ CredentialMissing) =>
    /\ io = <<>>
    /\ ssh = NoSession
    /\ pc \in {"scan_address", "settings", "done"}
    /\ pc = "done" => ReturnedError(NotConfiguredMessage)

\* A user without a password: the error result.
C3_Witness ==
  /\ pc = "done"
  /\ SETTINGS = [xen_user |-> ROOT, xen_password |-> None]
  /\ ReturnedError(NotConfiguredMessage)
  /\ io = <<>>

PortFoundClosed == \E i \in Calls("check_tcp_port") : io[i].detail = FALSE

\* C4: connect_ssh is only called after check_tcp_port has returned true; when
\* it returned false no session is opened or closed and the call returns an
\* error result with the port-closed message.
C4_PortCheckedFirst ==
  /\ \A i \in Calls("connect_ssh") :
       \E j \in Calls("check_tcp_port") : j < i /\ io[j].detail = TRUE
  /\ PortFoundClosed =>
       /\ Calls("connect_ssh") = {}
       /\ Len(io) = 1
       /\ ssh = NoSession
       /\ pc \in {"except", "done"}
       /\ pc = "done" => ReturnedError(PortClosedMessage)

\* The port was closed and the error result returned.
C4_Witness ==
  /\ pc = "done"
  /\ PortFoundClosed
  /\ ReturnedError(PortClosedMessage)

UuidNotFound == frame.uuid = None \/ frame.uuid = <<>>

\* C6: once the host's UUID was looked up and not found, no VM list, VIF list,
\* disk list or share lookup is issued, and the call returns an error result
\* with the text 'Could not find this host UUID.' and no device.
C6_StopsWithoutUuid ==
  UuidNotFound =>
    /\ \A name \in {"vm-list", "vif-list", "vm-disk-list", "get_disk_shares"} : Calls(name) = {}
    /\ pc \in {"finally", "except", "done"}
    /\ pc = "done" => ReturnedError(NoUuidMessage)

\* The host list names another address only: the error result, after the
\* host list and the close as the only calls on the session.
C6_Witness ==
  /\ pc = "done"
  /\ frame.uuid = None
  /\ ReturnedError(NoUuidMessage)
  /\ Len(io) = 4
  /\ io[3].call = "host-list"
  /\ io[4].call = "close"

=============================================================================
